---- MODULE Spec2Model ----
(***************************************************************************)
(* analogz: the Python surface (analogz/__init__.py) over the native      *)
(* buffer/view engine (_lib_rs).  Text is a sequence of codepoints, an    *)
(* Arena holds its UTF-8 bytes, a View is a byte range of an Arena.       *)
(***************************************************************************)
EXTENDS Integers, Sequences, FiniteSets, TLC

VARIABLES content, view, bufs, iters, built, last

vars == <<content, view, bufs, iters, built, last>>

(* ------------------------------ bounds -------------------------------- *)
MaxChars == 3
MaxNeedle == 2
MaxBufs == 3
MaxIters == 2
MaxExtraNext == 2
MaxCompiles == 4

(* ------------------------ python values ------------------------------- *)
None == [kind |-> "None"]
PyInt(n) == [kind |-> "int", val |-> n]
PyBool(b) == [kind |-> "bool", val |-> b]
PyStr(s) == [kind |-> "str", val |-> s]
Err(t) == [kind |-> "Error", type |-> t]
Pair(a, b) == [kind |-> "tuple", fst |-> a, snd |-> b]
Slice(lo, hi, st) == [kind |-> "slice", start |-> lo, stop |-> hi, step |-> st]
Raises(x) == x.kind = "Error"
IsNone(x) == x.kind = "None"

\* the codepoints texts are drawn from: "a", line feed, and U+00E9 (two bytes)
LF == 10
Codepoints == {97, LF, 233}
NeedlePoints == {97, 233}

RECURSIVE SeqsUpTo(_, _)
SeqsUpTo(S, n) ==
  IF n = 0 THEN {<<>>}
  ELSE LET shorter == SeqsUpTo(S, n - 1)
       IN  shorter \cup {Append(s, c) : s \in shorter, c \in S}

Texts == SeqsUpTo(Codepoints, MaxChars)
Needles == SeqsUpTo(NeedlePoints, MaxNeedle)

(* ------------------------- UTF-8 conversion --------------------------- *)
RECURSIVE Encode(_)
Encode(s) ==
  IF s = <<>> THEN <<>>
  ELSE LET c == Head(s)
       IN  (IF c < 128 THEN <<c>> ELSE <<192 + (c \div 64), 128 + (c % 64)>>)
           \o Encode(Tail(s))

IsContinuation(b) == b >= 128 /\ b < 192

RECURSIVE Decode(_)
Decode(b) ==
  IF b = <<>> THEN <<>>
  ELSE IF Head(b) < 128 THEN <<Head(b)>> \o Decode(Tail(b))
  ELSE <<(Head(b) % 32) * 64 + (b[2] % 64)>> \o Decode(Tail(Tail(b)))

\* an Arena: its identity n and the text it was built from; its bytes
NewArena(n, text) == [n |-> n, text |-> text]
Arena(a) == Encode(a.text)

IsCharBoundary(bytes, off) ==
  \/ off = 0
  \/ off = Len(bytes)
  \/ off > 0 /\ off < Len(bytes) /\ ~IsContinuation(bytes[off + 1])

(* -------------------- native engine: Arena, LineIndex ----------------- *)
RECURSIVE LineScan(_, _, _, _)
LineScan(bytes, i, ls, acc) ==
  IF i > Len(bytes)
  THEN IF ls < Len(bytes) THEN Append(acc, <<ls, Len(bytes)>>) ELSE acc
  ELSE IF bytes[i] = LF
       THEN LineScan(bytes, i + 1, i, Append(acc, <<ls, i - 1>>))
       ELSE LineScan(bytes, i + 1, ls, acc)

LineIndex(a) == LineScan(Arena(a), 1, 0, <<>>)

PyArcStrOf(a, lo, hi) == [kind |-> "PyArcStr", arena |-> a, start |-> lo, stop |-> hi]

PyBuffer_new(a) == [kind |-> "PyBuffer", arena |-> a, off |-> 0, cnt |-> Len(LineIndex(a))]

\* PyArcStr(text): a View of the whole of a fresh Arena; text only
PyArcStr_new(x) ==
  IF x.kind = "str"
  THEN PyArcStrOf(NewArena(0, x.val), 0, Len(Encode(x.val)))
  ELSE Err("TypeError")

PyArcStr_to_string(v) == Decode(SubSeq(Arena(v.arena), v.start + 1, v.stop))

PyArcStr_char_count(v) ==
  Cardinality({i \in (v.start + 1)..v.stop : ~IsContinuation(Arena(v.arena)[i])})

PyBuffer_get(b, i) ==
  IF i < 0 \/ i >= b.cnt THEN Err("IndexError")
  ELSE LET r == LineIndex(b.arena)[b.off + i + 1]
       IN  PyArcStrOf(b.arena, r[1], r[2])

Min(x, y) == IF x < y THEN x ELSE y
Max(x, y) == IF x > y THEN x ELSE y

PyBuffer_slice(b, lo, hi) ==
  LET lo0 == IF IsNone(lo) THEN 0 ELSE lo.val
      hi0 == IF IsNone(hi) THEN b.cnt ELSE hi.val
      hi1 == Min(hi0, b.cnt)
  IN  IF lo0 < 0 \/ lo0 > hi0 THEN Err("IndexError")
      ELSE [kind |-> "PyBuffer", arena |-> b.arena, off |-> b.off + lo0,
            cnt |-> Max(hi1 - lo0, 0)]

PyBuffer_iter(b) == [kind |-> "PyLineIter", buf |-> b, next |-> 0]

\* the native cursor: <<result, cursor after the call>>
PyLineIter_next(it) ==
  IF it.next >= it.buf.cnt THEN <<None, it>>
  ELSE <<PyBuffer_get(it.buf, it.next), [it EXCEPT !.next = it.next + 1]>>

(* -------------------- native engine: View operations ------------------ *)
OccursAt(bytes, p, s) ==
  /\ s >= 0
  /\ s + Len(p) <= Len(bytes)
  /\ \A j \in 1..Len(p) : bytes[s + j] = p[j]

RECURSIVE FindFrom(_, _, _, _)
FindFrom(bytes, p, s, stop) ==
  IF s + Len(p) > stop THEN -1
  ELSE IF OccursAt(bytes, p, s) THEN s
  ELSE FindFrom(bytes, p, s + 1, stop)

PyArcStr_find(v, pattern) ==
  LET s == FindFrom(Arena(v.arena), Encode(pattern), v.start, v.stop)
  IN  IF s < 0 THEN None ELSE PyArcStrOf(v.arena, s, s + Len(Encode(pattern)))

PyArcStr_contains(v, n) ==
  LET nb == SubSeq(Arena(n.arena), n.start + 1, n.stop)
  IN  PyBool(FindFrom(Arena(v.arena), nb, v.start, v.stop) >= 0)

PyArcStr_slice(v, lo, hi) ==
  LET lo0 == IF IsNone(lo) THEN 0 ELSE lo.val
      hi0 == IF IsNone(hi) THEN v.stop - v.start ELSE hi.val
  IN  IF \/ lo0 < 0
         \/ lo0 > hi0
         \/ v.start + hi0 > v.stop
         \/ ~IsCharBoundary(Arena(v.arena), v.start + lo0)
         \/ ~IsCharBoundary(Arena(v.arena), v.start + hi0)
      THEN Err("IndexError")
      ELSE PyArcStrOf(v.arena, v.start + lo0, v.start + hi0)

PyArcStr_split_at(v, pos) ==
  IF \/ pos < 0
     \/ v.start + pos > v.stop
     \/ ~IsCharBoundary(Arena(v.arena), v.start + pos)
  THEN Err("IndexError")
  ELSE Pair(PyArcStrOf(v.arena, v.start, v.start + pos),
            PyArcStrOf(v.arena, v.start + pos, v.stop))

\* the outcomes of the native rel_position: the difference of the starts over
\* one Arena; over two Arenas the surface declares Optional[int] and the
\* design leaves the outcome open between the absent value and an error
PyArcStr_rel_position(v, anchor) ==
  IF v.arena = anchor.arena THEN {PyInt(v.start - anchor.start)}
  ELSE {None, Err("CrossArenaError")}

(* ----------------------- the Python surface: ArcStr ------------------- *)
ArcStr(x) == [kind |-> "ArcStr", arc_str |-> x]

\* ArcStr(<native result>), an exception of the native call propagating
Wrapped(r) == IF Raises(r) THEN r ELSE ArcStr(r)

ArcStr_start(self) == self.arc_str.start
ArcStr_stop(self) == self.arc_str.stop
ArcStr_str(self) == PyArcStr_to_string(self.arc_str)
ArcStr_py_arc_str(self) == self.arc_str
ArcStr_len(self) == PyInt(PyArcStr_char_count(self.arc_str))

\* find without the test for the absent result
ArcStr_find_unchecked(self, pattern) == ArcStr(PyArcStr_find(self.arc_str, pattern))

ArcStr_find(self, pattern) ==
  LET astr == PyArcStr_find(self.arc_str, pattern)
  IN  IF IsNone(astr) THEN None ELSE ArcStr(astr)

\* split with the two halves in the wrong order
ArcStr_split_swapped(self, pos) ==
  LET r == PyArcStr_split_at(self.arc_str, pos)
  IN  IF Raises(r) THEN r ELSE Pair(ArcStr(r.snd), ArcStr(r.fst))

ArcStr_split(self, pos) ==
  LET r == PyArcStr_split_at(self.arc_str, pos)
  IN  IF Raises(r) THEN r ELSE Pair(ArcStr(r.fst), ArcStr(r.snd))

\* other.__arc_str inside class ArcStr is the attribute _ArcStr__arc_str,
\* which only an ArcStr has
PrivateArcStr(other) ==
  IF other.kind = "ArcStr" THEN other.arc_str ELSE Err("AttributeError")

ArcStr_contains(self, other) ==
  IF other.kind # "PyArcStr"
  THEN LET n == PyArcStr_new(other)
       IN  IF Raises(n) THEN n ELSE PyArcStr_contains(self.arc_str, n)
  ELSE LET n == PrivateArcStr(other)
       IN  IF Raises(n) THEN n ELSE PyArcStr_contains(self.arc_str, n)

ArcStr_in(self, other) == ArcStr_contains(self, other)

ArcStr_rel_position(self, anchor) ==
  PyArcStr_rel_position(self.arc_str, ArcStr_py_arc_str(anchor))

\* the attribute `step` of the builtin type `slice`: a member descriptor,
\* whatever the slice object at hand holds
slice_step == [kind |-> "member_descriptor"]

ArcStr_getitem(self, idx) ==
  IF idx.kind = "slice"
  THEN IF IsNone(slice_step) THEN Err("AssertionError")
       ELSE Wrapped(PyArcStr_slice(self.arc_str, idx.start, idx.stop))
  ELSE IF idx.kind = "int"
  THEN Wrapped(PyArcStr_slice(self.arc_str, idx, PyInt(idx.val + 1)))
  ELSE Err("IndexError")

(* ------------------ the Python surface: LineIter, Buffer -------------- *)
LineIter(x) == [kind |-> "LineIter", iter |-> x]

\* next() that keeps the cursor it was given
LineIter_next_stuck(self) ==
  LET r == PyLineIter_next(self.iter)
  IN  IF IsNone(r[1]) THEN <<Err("StopIteration"), self>>
      ELSE <<ArcStr(r[1]), self>>

\* <<what next() returns or raises, the iterator after the call>>
LineIter_next(self) ==
  LET r == PyLineIter_next(self.iter)
  IN  IF IsNone(r[1]) THEN <<Err("StopIteration"), LineIter(r[2])>>
      ELSE <<ArcStr(r[1]), LineIter(r[2])>>

Buffer(x) == [kind |-> "Buffer", buffer |-> x]

Buffer_init(n, text) == Buffer(PyBuffer_new(NewArena(n, text)))

Buffer_iter(self) == LineIter(PyBuffer_iter(self.buffer))

\* integer access that clamps the index as slicing clamps its upper end
Buffer_getitem_clamped(self, idx) ==
  IF idx.kind = "slice"
  THEN IF IsNone(slice_step) THEN Err("AssertionError")
       ELSE LET b == PyBuffer_slice(self.buffer, idx.start, idx.stop)
            IN  IF Raises(b) THEN b ELSE Buffer(b)
  ELSE IF idx.kind = "int"
  THEN Wrapped(PyBuffer_get(self.buffer, Min(idx.val, self.buffer.cnt - 1)))
  ELSE Err("IndexError")

\* slicing that passes the lower end only
Buffer_getitem_open(self, idx) ==
  IF idx.kind = "slice"
  THEN IF IsNone(slice_step) THEN Err("AssertionError")
       ELSE LET b == PyBuffer_slice(self.buffer, idx.start, None)
            IN  IF Raises(b) THEN b ELSE Buffer(b)
  ELSE IF idx.kind = "int"
  THEN Wrapped(PyBuffer_get(self.buffer, idx.val))
  ELSE Err("IndexError")

Buffer_getitem(self, idx) ==
  IF idx.kind = "slice"
  THEN IF IsNone(slice_step) THEN Err("AssertionError")
       ELSE LET b == PyBuffer_slice(self.buffer, idx.start, idx.stop)
            IN  IF Raises(b) THEN b ELSE Buffer(b)
  ELSE IF idx.kind = "int"
  THEN Wrapped(PyBuffer_get(self.buffer, idx.val))
  ELSE Err("IndexError")

\* the lines a Buffer yields, as text
Lines(b) == [i \in 1..b.buffer.cnt |-> ArcStr_str(Buffer_getitem(b, PyInt(i - 1)))]

(* --------------------- the Python surface: Regex ---------------------- *)
Patterns == {"[0-9]+", "[A-Z]", "[A-Z]{2}"}

\* PyRegex(pattern): parses the pattern; the n-th construction of this text
PyRegex_new(pattern, n) == [kind |-> "PyRegex", pattern |-> pattern, serial |-> n]

\* functools.lru_cache(maxsize=1024) stands as a statement of its own above
\* compile_regex and decorates nothing: every call constructs
compile_regex(pattern, n) == PyRegex_new(pattern, n)

Regex_init(pattern, n) == [kind |-> "Regex", regex |-> PyRegex_new(pattern, n)]

(* ------------------------------ state --------------------------------- *)
Op(op, self, arg, res) == [op |-> op, self |-> self, arg |-> arg, res |-> res]

NoOp == Op("init", None, None, None)

OptIdx(n) == {None} \cup {PyInt(i) : i \in 0..n}
Steps == {None, PyInt(2)}

ByteLen(v) == IF v.kind = "ArcStr" THEN v.arc_str.stop - v.arc_str.start ELSE 0

\* the line Views of the Buffers at hand
LineViews ==
  {Buffer_getitem(bufs[b], PyInt(i)) : b \in DOMAIN bufs, i \in 0..MaxChars} \ {Err("IndexError")}

(* --------------------------- View operations -------------------------- *)
\* buff[i]
SelectLine(b, i) ==
  /\ b \in DOMAIN bufs
  /\ LET r == Buffer_getitem(bufs[b], PyInt(i))
     IN  /\ last' = Op("Buffer.getitem", bufs[b], PyInt(i), r)
         /\ view' = IF r.kind = "ArcStr" THEN r ELSE view
  /\ UNCHANGED <<content, bufs, iters, built>>

\* v[lo:hi:step], v[i], v["x"]
ViewGetitem(idx) ==
  /\ view.kind = "ArcStr"
  /\ LET r == ArcStr_getitem(view, idx)
     IN  /\ last' = Op("ArcStr.getitem", view, idx, r)
         /\ view' = IF r.kind = "ArcStr" THEN r ELSE view
  /\ UNCHANGED <<content, bufs, iters, built>>

ViewLen ==
  /\ view.kind = "ArcStr"
  /\ last' = Op("ArcStr.len", view, None, ArcStr_len(view))
  /\ UNCHANGED <<content, view, bufs, iters, built>>

ViewFind(p) ==
  /\ view.kind = "ArcStr"
  /\ last' = Op("ArcStr.find", view, PyStr(p), ArcStr_find(view, p))
  /\ UNCHANGED <<content, view, bufs, iters, built>>

ViewSplit(pos) ==
  /\ view.kind = "ArcStr"
  /\ last' = Op("ArcStr.split", view, PyInt(pos), ArcStr_split(view, pos))
  /\ UNCHANGED <<content, view, bufs, iters, built>>

ViewContains(needle) ==
  /\ view.kind = "ArcStr"
  /\ last' = Op("ArcStr.contains", view, needle, ArcStr_in(view, needle))
  /\ UNCHANGED <<content, view, bufs, iters, built>>

ViewRelPosition(anchor) ==
  /\ view.kind = "ArcStr"
  /\ \E r \in ArcStr_rel_position(view, anchor) :
       last' = Op("ArcStr.rel_position", view, anchor, r)
  /\ UNCHANGED <<content, view, bufs, iters, built>>

InitView ==
  /\ content \in Texts
  /\ bufs = <<Buffer_init(1, content), Buffer_init(2, content)>>
  /\ view = None
  /\ iters = <<>>
  /\ built = [p \in Patterns |-> 0]
  /\ last = NoOp

NextView ==
  \/ \E i \in 0..MaxChars : SelectLine(1, i)
  \/ \E lo \in OptIdx(ByteLen(view) + 1), hi \in OptIdx(ByteLen(view) + 1) :
       ViewGetitem(Slice(lo, hi, None))
  \/ \E hi \in OptIdx(ByteLen(view) + 1), st \in Steps \ {None} :
       ViewGetitem(Slice(None, hi, st))
  \/ \E i \in 0..ByteLen(view) : ViewGetitem(PyInt(i))
  \/ ViewGetitem(PyStr(<<97>>))
  \/ ViewLen
  \/ \E p \in Needles : ViewFind(p)
  \/ \E pos \in 0..(ByteLen(view) + 1) : ViewSplit(pos)
  \/ \E p \in Needles : ViewContains(PyStr(p))
  \/ \E n \in LineViews : ViewContains(n)
  \/ \E n \in LineViews : ViewContains(n.arc_str)
  \/ \E a \in LineViews : ViewRelPosition(a)

SpecView == InitView /\ [][NextView]_vars

(* -------------------------- Buffer operations ------------------------- *)
\* buff[i], the result not kept
BufferGet(b, i) ==
  /\ b \in DOMAIN bufs
  /\ last' = Op("Buffer.getitem", bufs[b], PyInt(i), Buffer_getitem(bufs[b], PyInt(i)))
  /\ UNCHANGED <<content, view, bufs, iters, built>>

\* buff[lo:hi:step]; the new Buffer is kept next to the one it was cut from
BufferSlice(b, idx) ==
  /\ b \in DOMAIN bufs
  /\ Len(bufs) < MaxBufs
  /\ LET r == Buffer_getitem(bufs[b], idx)
     IN  /\ last' = Op("Buffer.getitem", bufs[b], idx, r)
         /\ bufs' = IF r.kind = "Buffer" THEN Append(bufs, r) ELSE bufs
  /\ UNCHANGED <<content, view, iters, built>>

InitBuf ==
  /\ content \in Texts
  /\ bufs = <<Buffer_init(1, content)>>
  /\ view = None
  /\ iters = <<>>
  /\ built = [p \in Patterns |-> 0]
  /\ last = NoOp

LineCount(b) == IF b \in DOMAIN bufs THEN bufs[b].buffer.cnt ELSE 0

\* any Buffer at hand is read; the newest one is the one cut further
NextBuf ==
  \/ \E b \in 1..MaxBufs : \E i \in 0..LineCount(b) : BufferGet(b, i)
  \/ \E lo \in OptIdx(LineCount(Len(bufs)) + 1), hi \in OptIdx(LineCount(Len(bufs)) + 1) :
       BufferSlice(Len(bufs), Slice(lo, hi, None))
  \/ \E hi \in OptIdx(LineCount(Len(bufs)) + 1), st \in Steps \ {None} :
       BufferSlice(Len(bufs), Slice(None, hi, st))

SpecBuf == InitBuf /\ [][NextBuf]_vars

(* ------------------------- LineIter operations ------------------------ *)
\* iter(buff): the iterator, with the Buffer it was taken from, the number of
\* next() calls made on it and what they returned
BufferIter(b) ==
  /\ b \in DOMAIN bufs
  /\ Len(iters) < MaxIters
  /\ LET it == Buffer_iter(bufs[b])
     IN  /\ iters' = Append(iters, [it |-> it, of |-> bufs[b], calls |-> 0, yielded |-> <<>>])
         /\ last' = Op("Buffer.iter", bufs[b], None, it)
  /\ UNCHANGED <<content, view, bufs, built>>

\* next(it)
IterNext(k) ==
  /\ k \in DOMAIN iters
  /\ iters[k].calls < iters[k].of.buffer.cnt + MaxExtraNext
  /\ LET r == LineIter_next(iters[k].it)
     IN  /\ iters' = [iters EXCEPT ![k] =
                        [it |-> r[2], of |-> @.of, calls |-> @.calls + 1,
                         yielded |-> Append(@.yielded, r[1])]]
         /\ last' = Op("LineIter.next", iters[k].it, PyInt(k), r[1])
  /\ UNCHANGED <<content, view, bufs, built>>

\* the Buffers iterated: the whole Buffer and one cut from it
InitIter ==
  /\ content \in Texts
  /\ bufs = <<Buffer_init(1, content),
              Buffer_getitem(Buffer_init(1, content), Slice(PyInt(1), PyInt(MaxChars + 1), None))>>
  /\ view = None
  /\ iters = <<>>
  /\ built = [p \in Patterns |-> 0]
  /\ last = NoOp

NextIter ==
  \/ \E b \in 1..2 : BufferIter(b)
  \/ \E k \in 1..MaxIters : IterNext(k)

SpecIter == InitIter /\ [][NextIter]_vars

(* --------------------------- Regex operations ------------------------- *)
RECURSIVE SumOver(_, _)
SumOver(f, S) ==
  IF S = {} THEN 0
  ELSE LET x == CHOOSE y \in S : TRUE IN f[x] + SumOver(f, S \ {x})

Compiles == SumOver(built, Patterns)

\* compile_regex(pattern)
CompileRegex(p) ==
  /\ Compiles < MaxCompiles
  /\ built' = [built EXCEPT ![p] = @ + 1]
  /\ last' = Op("compile_regex", None, PyStr(p), compile_regex(p, built[p] + 1))
  /\ UNCHANGED <<content, view, bufs, iters>>

\* Regex(pattern)
NewRegex(p) ==
  /\ Compiles < MaxCompiles
  /\ built' = [built EXCEPT ![p] = @ + 1]
  /\ last' = Op("Regex", None, PyStr(p), Regex_init(p, built[p] + 1))
  /\ UNCHANGED <<content, view, bufs, iters>>

InitRegex ==
  /\ content = <<>>
  /\ bufs = <<>>
  /\ view = None
  /\ iters = <<>>
  /\ built = [p \in Patterns |-> 0]
  /\ last = NoOp

NextRegex ==
  \/ \E p \in Patterns : CompileRegex(p)
  \/ \E p \in Patterns : NewRegex(p)

SpecRegex == InitRegex /\ [][NextRegex]_vars

(* ===================== properties of the surface ====================== *)
\* the text split at its line feeds, by position
LFs(text) == {p \in 1..Len(text) : text[p] = LF}
NthLF(text, n) == CHOOSE p \in LFs(text) : Cardinality({q \in LFs(text) : q < p}) = n - 1
NumLines(text) ==
  Cardinality(LFs(text)) + (IF Len(text) > 0 /\ text[Len(text)] # LF THEN 1 ELSE 0)
NthLine(text, i) ==
  LET from == IF i = 0 THEN 1 ELSE NthLF(text, i) + 1
      to == IF i < Cardinality(LFs(text)) THEN NthLF(text, i + 1) - 1 ELSE Len(text)
  IN  SubSeq(text, from, to)

IsBuilt(b) == b = Buffer_init(1, content)

\* C1: on a Buffer built from content with k lines, buff[i] for 0 <= i < k is
\* a View whose text is the i-th line of the content without its line feed,
\* and buff[k] raises IndexError.
C1_LineAccess ==
  (last.op = "Buffer.getitem" /\ last.arg.kind = "int" /\ IsBuilt(last.self)) =>
    LET k == NumLines(content)
        i == last.arg.val
    IN  /\ (i >= 0 /\ i < k) =>
             /\ last.res.kind = "ArcStr"
             /\ ArcStr_str(last.res) = NthLine(content, i)
        /\ i = k => last.res = Err("IndexError")

C1_Witness ==
  /\ last.op = "Buffer.getitem" /\ last.arg.kind = "int" /\ IsBuilt(last.self)
  /\ last.arg.val = 1
  /\ NumLines(content) = 2
  /\ last.res.kind = "ArcStr"
  /\ ArcStr_str(last.res) = <<233>>

DefaultInt(x, d) == IF IsNone(x) THEN d ELSE x.val

\* what buff[lo:hi] returns, and where the two Buffers are kept
C2_SliceState ==
  (last.op = "Buffer.getitem" /\ last.arg.kind = "slice" /\ IsNone(last.arg.step)) =>
    LET k == Len(Lines(last.self))
        lo == DefaultInt(last.arg.start, 0)
        hi == DefaultInt(last.arg.stop, k)
    IN  (0 <= lo /\ lo <= hi) =>
          /\ last.res.kind = "Buffer"
          /\ Lines(last.res) = SubSeq(Lines(last.self), lo + 1, Min(hi, k))
          /\ \E b \in DOMAIN bufs : bufs[b] = last.self
          /\ bufs[Len(bufs)] = last.res

\* C2: buff[lo:hi] with 0 <= lo <= hi is a new Buffer whose lines are lines
\* lo .. min(hi, line_count)-1 of buff, in order (hi omitted: to the end, lo
\* omitted: from 0), buff being any Buffer of a chain of slices; and no
\* Buffer at hand changes the lines it yields.
C2_Slice ==
  /\ C2_SliceState
  /\ bufs # <<>> => (IsBuilt(bufs[1]) /\ Len(Lines(bufs[1])) = NumLines(content))
  /\ \A b \in DOMAIN bufs :
       \A i \in 1..Len(Lines(bufs[b])) :
         Lines(bufs[b])[i] = NthLine(content, bufs[b].buffer.off + i - 1)

C2_Witness ==
  /\ last.op = "Buffer.getitem" /\ last.arg.kind = "slice" /\ IsNone(last.arg.step)
  /\ Len(bufs) = 3
  /\ last.self = bufs[2]
  /\ last.self.buffer.off = 1
  /\ last.arg.start = PyInt(1)
  /\ last.arg.stop = PyInt(last.self.buffer.cnt + 1)
  /\ last.res.kind = "Buffer"
  /\ Lines(last.res) = <<<<233>>>>
  /\ Len(Lines(bufs[1])) = 3

\* C5: the first k next() calls on an iterator over a Buffer of k lines
\* return the Views of lines 0..k-1 in order and every later call raises
\* StopIteration; each iterator counts its own calls, whatever another
\* iterator over the same Buffer has done.
C5_SinglePass ==
  \A n \in DOMAIN iters :
    LET it == iters[n]
        k == it.of.buffer.cnt
    IN  /\ Len(it.yielded) = it.calls
        /\ \A j \in 1..it.calls :
             IF j <= k
             THEN /\ it.yielded[j] = Buffer_getitem(it.of, PyInt(j - 1))
                  /\ it.yielded[j].kind = "ArcStr"
                  /\ ArcStr_str(it.yielded[j]) = NthLine(content, it.of.buffer.off + j - 1)
             ELSE it.yielded[j] = Err("StopIteration")

C5_Witness ==
  /\ Len(iters) = 2
  /\ iters[1].of = iters[2].of
  /\ iters[1].of.buffer.cnt = 2
  /\ iters[1].of.buffer.off = 1
  /\ iters[1].calls = 4
  /\ iters[2].calls = 1
  /\ iters[2].yielded[1].kind = "ArcStr"

\* C6: v.find(p) is the View [s, s+len(p)) of v's Arena, s the least absolute
\* offset with v.start <= s and s+len(p) <= v.stop at which p's bytes stand,
\* and is None when there is no such offset.
C6_Find ==
  last.op = "ArcStr.find" =>
    LET v == last.self.arc_str
        p == Encode(last.arg.val)
        S == {s \in v.start..v.stop :
                /\ s + Len(p) <= v.stop
                /\ SubSeq(Arena(v.arena), s + 1, s + Len(p)) = p}
    IN  IF S = {} THEN last.res = None
        ELSE /\ last.res.kind = "ArcStr"
             /\ last.res.arc_str.arena = v.arena
             /\ ArcStr_start(last.res) \in S
             /\ \A s \in S : ArcStr_start(last.res) <= s
             /\ ArcStr_stop(last.res) = ArcStr_start(last.res) + Len(p)

C6_Witness ==
  /\ last.op = "ArcStr.find"
  /\ last.res.kind = "ArcStr"
  /\ ArcStr_start(last.self) > 0
  /\ ArcStr_start(last.res) > ArcStr_start(last.self)

\* the byte offsets inside v that fall between two codepoints of its text
ValidPos(v) == {Len(Encode(SubSeq(ArcStr_str(v), 1, j))) : j \in 0..Len(ArcStr_str(v))}

\* C9: v.split(pos) at a valid pos is a pair (a, b) of Views of v's Arena
\* with a.start = v.start, a.stop = b.start, b.stop = v.stop, the text of a
\* followed by the text of b being the text of v; v is as it was.
C9_Split ==
  (last.op = "ArcStr.split" /\ last.arg.val \in ValidPos(last.self)) =>
    /\ last.res.kind = "tuple"
    /\ LET a == last.res.fst
           b == last.res.snd
           v == last.self
       IN  /\ a.kind = "ArcStr" /\ b.kind = "ArcStr"
           /\ a.arc_str.arena = v.arc_str.arena /\ b.arc_str.arena = v.arc_str.arena
           /\ ArcStr_start(a) = ArcStr_start(v)
           /\ ArcStr_stop(a) = ArcStr_start(b)
           /\ ArcStr_stop(b) = ArcStr_stop(v)
           /\ ArcStr_str(a) \o ArcStr_str(b) = ArcStr_str(v)
           /\ view = v

C9_Witness ==
  /\ last.op = "ArcStr.split"
  /\ last.res.kind = "tuple"
  /\ ArcStr_start(last.self) > 0
  /\ ArcStr_str(last.res.fst) = <<233>>
  /\ ArcStr_str(last.res.snd) = <<97>>

\* C3: v[lo:hi:step] and buff[lo:hi:step] with a step other than None fail.
C3_StepRejected ==
  (/\ last.op \in {"ArcStr.getitem", "Buffer.getitem"}
   /\ last.arg.kind = "slice"
   /\ ~IsNone(last.arg.step)) => Raises(last.res)

\* C4: a pattern text is constructed (parsed) once however often it is
\* compiled.
C4_Memoized == \A p \in Patterns : built[p] <= 1

\* the bytes of a needle, a text or a View
NeedleBytes(n) ==
  IF n.kind = "str" THEN Encode(n.val)
  ELSE SubSeq(Arena(n.arc_str.arena), n.arc_str.start + 1, n.arc_str.stop)

\* C7: v.contains(needle), needle a text or a View, is the boolean "the
\* needle's bytes stand contiguously inside v's byte range" and does not fail.
C7_Contains ==
  (last.op = "ArcStr.contains" /\ last.arg.kind \in {"str", "ArcStr"}) =>
    LET v == last.self.arc_str
        p == NeedleBytes(last.arg)
    IN  last.res = PyBool(\E s \in v.start..v.stop :
                            /\ s + Len(p) <= v.stop
                            /\ SubSeq(Arena(v.arena), s + 1, s + Len(p)) = p)

\* C8: v[0:len(v)] has the text of v.
C8_RoundTrip ==
  (/\ last.op = "ArcStr.getitem"
   /\ last.arg = Slice(PyInt(0), ArcStr_len(last.self), None)) =>
    /\ last.res.kind = "ArcStr"
    /\ ArcStr_str(last.res) = ArcStr_str(last.self)

\* C10: v.rel_position(anchor) is v.start - anchor.start over one Arena and
\* raises over two.
C10_RelPosition ==
  last.op = "ArcStr.rel_position" =>
    IF last.self.arc_str.arena = last.arg.arc_str.arena
    THEN last.res = PyInt(ArcStr_start(last.self) - ArcStr_start(last.arg))
    ELSE Raises(last.res)

====
